---- MODULE Spec2Model ----
(***************************************************************************)
(* Model of the additive-noise unscented Kalman filter of src/kf/ukfLib.c: *)
(* ukf_init (with ukf_dimension_check) and ukf_step with its five stages.  *)
(*                                                                         *)
(* float values are modelled as exact rationals [n, d] in lowest terms     *)
(* with d > 0, extended by the IEEE specials d = 0: n = 1 is +inf, n = -1  *)
(* is -inf and n = 0 is NaN.  A result whose denominator exceeds FloatDen  *)
(* is rounded down to a multiple of 1/FloatDen, and sqrt rounds down to a  *)
(* multiple of 1/d when the root is irrational.                            *)
(* uint8_t values are integers modulo W8.                                  *)
(***************************************************************************)
EXTENDS Integers, Sequences, FiniteSets, TLC

(***************************************************************************)
(* Index macros of ukfLib.h and the width of uint8_t.                      *)
(***************************************************************************)
xMinIdx == 0
xMaxIdx == 1
xEpsIdx == 2
alphaIdx == 0
bethaIdx == 1
kappaIdx == 2
W8 == 256

\* the precision of the modelled float: results are kept exact up to this
\* denominator and rounded beyond it
FloatDen == 256

U8(v) == v % W8

(***************************************************************************)
(* float arithmetic.                                                       *)
(***************************************************************************)
RECURSIVE GCD(_, _)
GCD(a, b) == IF b = 0 THEN a ELSE GCD(b, a % b)

Abs(v) == IF v < 0 THEN 0 - v ELSE v
Sgn(v) == IF v < 0 THEN 0 - 1 ELSE IF v > 0 THEN 1 ELSE 0

NaN == [n |-> 0, d |-> 0]
Inf(s) == [n |-> s, d |-> 0]

\* a/b in lowest terms
Exact(a, b) ==
    LET g == GCD(Abs(a), Abs(b))
        s == IF b < 0 THEN 0 - 1 ELSE 1
    IN  [n |-> (s * a) \div g, d |-> (s * b) \div g]

\* the float nearest below a/b: a/b itself when its denominator is at most
\* FloatDen, else a/b rounded down to a multiple of 1/FloatDen
Q(a, b) ==
    IF b = 0 THEN [n |-> Sgn(a), d |-> 0]
    ELSE LET e == Exact(a, b)
         IN  IF e.d <= FloatDen THEN e
             ELSE Exact((e.n \div e.d) * FloatDen + ((e.n % e.d) * FloatDen) \div e.d,
                        FloatDen)

F(v) == [n |-> v, d |-> 1]
Zero == F(0)
One == F(1)

IsNaN(a) == a.d = 0 /\ a.n = 0
IsInf(a) == a.d = 0 /\ a.n # 0
IsFinite(a) == a.d > 0

RNeg(a) == [n |-> 0 - a.n, d |-> a.d]

RAdd(a, b) ==
    IF IsNaN(a) \/ IsNaN(b) THEN NaN
    ELSE IF IsInf(a) /\ IsInf(b) THEN (IF a.n = b.n THEN a ELSE NaN)
    ELSE IF IsInf(a) THEN a
    ELSE IF IsInf(b) THEN b
    ELSE Q(a.n * b.d + b.n * a.d, a.d * b.d)

RSub(a, b) == RAdd(a, RNeg(b))

RMul(a, b) ==
    IF IsNaN(a) \/ IsNaN(b) THEN NaN
    ELSE IF IsInf(a) \/ IsInf(b)
         THEN (IF a.n = 0 \/ b.n = 0 THEN NaN ELSE Inf(Sgn(a.n) * Sgn(b.n)))
    ELSE Q(a.n * b.n, a.d * b.d)

RDiv(a, b) ==
    IF IsNaN(a) \/ IsNaN(b) THEN NaN
    ELSE IF IsInf(b) THEN (IF IsInf(a) THEN NaN ELSE Zero)
    ELSE IF IsInf(a) THEN Inf(Sgn(a.n) * (IF b.n < 0 THEN 0 - 1 ELSE 1))
    ELSE IF b.n = 0 THEN (IF a.n = 0 THEN NaN ELSE Inf(Sgn(a.n)))
    ELSE Q(a.n * b.d, a.d * b.n)

\* a < b; every comparison with NaN is false
RLt(a, b) ==
    IF IsNaN(a) \/ IsNaN(b) THEN FALSE
    ELSE IF IsInf(a) /\ IsInf(b) THEN a.n < b.n
    ELSE IF IsInf(a) THEN a.n < 0
    ELSE IF IsInf(b) THEN b.n > 0
    ELSE a.n * b.d < b.n * a.d

RGt(a, b) == RLt(b, a)
RLe(a, b) == (~ IsNaN(a)) /\ (~ IsNaN(b)) /\ ~ RLt(b, a)

RECURSIVE ISqrtIn(_, _, _)
ISqrtIn(v, lo, hi) ==
    IF hi - lo <= 1 THEN lo
    ELSE LET mid == (lo + hi) \div 2
         IN  IF mid * mid <= v THEN ISqrtIn(v, mid, hi) ELSE ISqrtIn(v, lo, mid)

\* 46341 is the least integer whose square exceeds 2^31 - 1
ISqrt(v) == ISqrtIn(v, 0, IF v + 1 > 46341 THEN 46341 ELSE v + 1)

\* sqrt() of math.h: exact for the square of a float, else rounded down to
\* a multiple of 1/(d * s), with s the finest scale that fits 31 bits
RSqrt(a) ==
    IF IsNaN(a) THEN NaN
    ELSE IF IsInf(a) THEN (IF a.n > 0 THEN a ELSE NaN)
    ELSE IF a.n < 0 THEN NaN
    ELSE LET v == a.n * a.d
             r == ISqrt(v)
             Fits(s) == v <= 2147483647 \div (s * s)
             s == IF Fits(FloatDen) THEN FloatDen
                  ELSE IF Fits(ISqrt(FloatDen)) THEN ISqrt(FloatDen) ELSE 1
         IN  IF r * r = v THEN Q(r, a.d)
             ELSE Q(ISqrt(v * s * s), a.d * s)

\* f[lo] + f[lo+1] + ... + f[hi], accumulated from the left as the loops do
RSumFrom(acc, f, lo, hi) ==
    LET RECURSIVE go(_, _)
        go(a, i) == IF i > hi THEN a ELSE go(RAdd(a, f[i]), i + 1)
    IN  go(acc, lo)
RSum(f, lo, hi) == RSumFrom(Zero, f, lo, hi)

(***************************************************************************)
(* tMatrix: row and column counts (uint8_t) and the storage `val`, which   *)
(* is NULL or names one of the caller's arrays.  `mem` maps every array to *)
(* its elements, indexed from 0 as in C; an array holds exactly            *)
(* nrow * ncol elements of the tMatrix that the configuration declares     *)
(* for it.                                                                 *)
(***************************************************************************)
NULL == "NULL"

Mtx(nrow, ncol, val) == [nrow |-> nrow, ncol |-> ncol, val |-> val]
NullMtx == Mtx(0, 0, NULL)
nelem(A) == A.nrow * A.ncol
Fill(len, v) == [i \in 0 .. len - 1 |-> v]

(***************************************************************************)
(* The matrix library (mtxLib).  Every operation takes the memory and      *)
(* returns the memory after the call; a call whose operands do not fit     *)
(* reports a status, which ukfLib.c discards, and changes nothing.         *)
(***************************************************************************)
mtx_cpy(m, pDst, pSrc) ==
    IF pDst.val # NULL /\ pSrc.val # NULL
       /\ pDst.nrow = pSrc.nrow /\ pDst.ncol = pSrc.ncol
    THEN [m EXCEPT ![pDst.val] = [i \in DOMAIN @ |->
              IF i < nelem(pSrc) THEN m[pSrc.val][i] ELSE @[i]]]
    ELSE m

mtx_zeros(m, pA) ==
    IF pA.val # NULL
    THEN [m EXCEPT ![pA.val] = [i \in DOMAIN @ |->
              IF i < nelem(pA) THEN Zero ELSE @[i]]]
    ELSE m

mtx_identity(m, pA) ==
    IF pA.val # NULL /\ pA.nrow = pA.ncol
    THEN [m EXCEPT ![pA.val] = [i \in DOMAIN @ |->
              IF i < nelem(pA)
              THEN (IF i \div pA.ncol = i % pA.ncol THEN One ELSE Zero)
              ELSE @[i]]]
    ELSE m

mtx_mul_scalar(m, pA, s) ==
    IF pA.val # NULL
    THEN [m EXCEPT ![pA.val] = [i \in DOMAIN @ |->
              IF i < nelem(pA) THEN RMul(@[i], s) ELSE @[i]]]
    ELSE m

\* pDst = pDst + pSrc
mtx_add(m, pDst, pSrc) ==
    IF pDst.val # NULL /\ pSrc.val # NULL
       /\ pDst.nrow = pSrc.nrow /\ pDst.ncol = pSrc.ncol
    THEN [m EXCEPT ![pDst.val] = [i \in DOMAIN @ |->
              IF i < nelem(pDst) THEN RAdd(@[i], m[pSrc.val][i]) ELSE @[i]]]
    ELSE m

\* pDst = pDst - pSrc
mtx_sub(m, pDst, pSrc) ==
    IF pDst.val # NULL /\ pSrc.val # NULL
       /\ pDst.nrow = pSrc.nrow /\ pDst.ncol = pSrc.ncol
    THEN [m EXCEPT ![pDst.val] = [i \in DOMAIN @ |->
              IF i < nelem(pDst) THEN RSub(@[i], m[pSrc.val][i]) ELSE @[i]]]
    ELSE m

\* pDst = pSrc1 * pSrc2
mtx_mul(m, pSrc1, pSrc2, pDst) ==
    IF pSrc1.val # NULL /\ pSrc2.val # NULL /\ pDst.val # NULL
       /\ pSrc1.ncol = pSrc2.nrow
       /\ pDst.nrow = pSrc1.nrow /\ pDst.ncol = pSrc2.ncol
    THEN [m EXCEPT ![pDst.val] = [i \in DOMAIN @ |->
              IF i < nelem(pDst)
              THEN LET r == i \div pDst.ncol
                       c == i % pDst.ncol
                   IN  RSum([k \in 0 .. pSrc1.ncol - 1 |->
                                RMul(m[pSrc1.val][pSrc1.ncol * r + k],
                                     m[pSrc2.val][pSrc2.ncol * k + c])],
                            0, pSrc1.ncol - 1)
              ELSE @[i]]]
    ELSE m

\* pDst = pSrc1 * transpose(pSrc2)
mtx_mul_src2tr(m, pSrc1, pSrc2, pDst) ==
    IF pSrc1.val # NULL /\ pSrc2.val # NULL /\ pDst.val # NULL
       /\ pSrc1.ncol = pSrc2.ncol
       /\ pDst.nrow = pSrc1.nrow /\ pDst.ncol = pSrc2.nrow
    THEN [m EXCEPT ![pDst.val] = [i \in DOMAIN @ |->
              IF i < nelem(pDst)
              THEN LET r == i \div pDst.ncol
                       c == i % pDst.ncol
                   IN  RSum([k \in 0 .. pSrc1.ncol - 1 |->
                                RMul(m[pSrc1.val][pSrc1.ncol * r + k],
                                     m[pSrc2.val][pSrc2.ncol * c + k])],
                            0, pSrc1.ncol - 1)
              ELSE @[i]]]
    ELSE m

\* determinant of the len x len matrix a (a function of row and column)
RECURSIVE Det(_, _)
Det(a, len) ==
    IF len = 0 THEN One
    ELSE IF len = 1 THEN a[0][0]
    ELSE LET Minor(c) == [r \in 0 .. len - 2 |-> [k \in 0 .. len - 2 |->
                              a[r + 1][IF k < c THEN k ELSE k + 1]]]
             Term(c) == LET t == RMul(a[0][c], Det(Minor(c), len - 1))
                        IN  IF c % 2 = 0 THEN t ELSE RNeg(t)
         IN  RSum([c \in 0 .. len - 1 |-> Term(c)], 0, len - 1)

\* the inverse of a square matrix by cofactors: [ok, inv], inv flat
Inverse(a, len) ==
    LET d == Det(a, len)
        Cof(r, c) ==
            LET sub == [i \in 0 .. len - 2 |-> [j \in 0 .. len - 2 |->
                           a[IF i < r THEN i ELSE i + 1][IF j < c THEN j ELSE j + 1]]]
                t == Det(sub, len - 1)
            IN  IF (r + c) % 2 = 0 THEN t ELSE RNeg(t)
    IN  [ok |-> d # Zero,
         inv |-> [i \in 0 .. len * len - 1 |->
                     RDiv(Cof(i % len, i \div len), d)]]

MtxSingular(m, pSrc) ==
    LET a == [r \in 0 .. pSrc.nrow - 1 |-> [c \in 0 .. pSrc.ncol - 1 |->
                 m[pSrc.val][pSrc.ncol * r + c]]]
    IN  Det(a, pSrc.nrow) = Zero

(***************************************************************************)
(* mtx_inv inverts pSrc in place and leaves the inverse in pDst, which the *)
(* caller has filled with the identity.  For a singular pSrc the contract  *)
(* fixes only the status: `undef` chooses between the two outcomes an      *)
(* elimination can leave, pDst untouched or pDst filled with NaN.          *)
(***************************************************************************)
mtx_inv(m, pSrc, pDst, undef) ==
    IF pSrc.val # NULL /\ pDst.val # NULL /\ pSrc.nrow = pSrc.ncol
       /\ pDst.nrow = pSrc.nrow /\ pDst.ncol = pSrc.ncol
    THEN LET a == [r \in 0 .. pSrc.nrow - 1 |-> [c \in 0 .. pSrc.ncol - 1 |->
                      m[pSrc.val][pSrc.ncol * r + c]]]
             res == Inverse(a, pSrc.nrow)
         IN  IF res.ok
             THEN [m EXCEPT
                     ![pDst.val] = [i \in DOMAIN @ |->
                         IF i < nelem(pDst) THEN res.inv[i] ELSE @[i]],
                     ![pSrc.val] = [i \in DOMAIN @ |->
                         IF i < nelem(pSrc)
                         THEN (IF i \div pSrc.ncol = i % pSrc.ncol THEN One ELSE Zero)
                         ELSE @[i]]]
             ELSE IF undef = "nan"
             THEN [m EXCEPT ![pDst.val] = [i \in DOMAIN @ |->
                         IF i < nelem(pDst) THEN NaN ELSE @[i]]]
             ELSE m
    ELSE m

(***************************************************************************)
(* mtx_chol_lower: the lower Cholesky factor L of a (L * L' = a), computed *)
(* row by row; it fails when a diagonal pivot is not positive.             *)
(***************************************************************************)
RECURSIVE CholFill(_, _, _, _)
CholFill(a, len, k, L) ==
    IF k = len * len THEN [ok |-> TRUE, L |-> L]
    ELSE LET r == k \div len
             c == k % len
             s == RSub(a[k], RSum([t \in 0 .. c - 1 |->
                           RMul(L[len * r + t], L[len * c + t])], 0, c - 1))
         IN  IF c > r THEN CholFill(a, len, k + 1, L)
             ELSE IF c = r
             THEN (IF RGt(s, Zero)
                   THEN CholFill(a, len, k + 1, [L EXCEPT ![k] = RSqrt(s)])
                   ELSE [ok |-> FALSE, L |-> L])
             ELSE CholFill(a, len, k + 1,
                           [L EXCEPT ![k] = RDiv(s, L[len * c + c])])

CholLower(a, len) == CholFill(a, len, 0, Fill(len * len, Zero))

MTX_OPERATION_OK == "MTX_OPERATION_OK"
MTX_NOT_POS_DEFINED == "MTX_NOT_POS_DEFINED"
MTX_SIZE_MISMATCH == "MTX_SIZE_MISMATCH"

\* the status mtx_chol_lower reports
mtx_chol_lower_status(m, pSrc) ==
    IF pSrc.val = NULL \/ pSrc.nrow # pSrc.ncol THEN MTX_SIZE_MISMATCH
    ELSE IF CholLower(m[pSrc.val], pSrc.nrow).ok THEN MTX_OPERATION_OK
    ELSE MTX_NOT_POS_DEFINED

\* the memory mtx_chol_lower leaves: the factor in place of the matrix on
\* success; on failure the matrix is left as it was (ukf_step overwrites
\* it before it is read again)
mtx_chol_lower(m, pSrc) ==
    IF mtx_chol_lower_status(m, pSrc) = MTX_OPERATION_OK
    THEN [m EXCEPT ![pSrc.val] = [i \in DOMAIN @ |->
              IF i < nelem(pSrc)
              THEN CholLower(m[pSrc.val], pSrc.nrow).L[i] ELSE @[i]]]
    ELSE m

(***************************************************************************)
(* State.                                                                  *)
(*   pUkfMatrix  the tUkfMatrix the caller hands to ukf_init               *)
(*   pUkf        the tUKF working structure                                *)
(*   mem         the caller's arrays (the storage behind every tMatrix)    *)
(*   layout      the array the linker placed right behind Y_sigma_points,  *)
(*               or NULL when what follows is none of the filter's arrays  *)
(*   pc          where the caller is: before ukf_init, between two         *)
(*               ukf_step calls, or at a stage inside ukf_step             *)
(*   initResult  what ukf_init returned (NoResult before it returns)       *)
(*   mtxResult   the status mtx_chol_lower reported in ukf_sigmapoint      *)
(*   k           the number of ukf_step calls started                      *)
(*   uWritten    uWritten[s]: the input vector the caller wrote before     *)
(*               ukf_step call s                                           *)
(*   uPassed     the elements of the pu_p argument at the last call of a   *)
(*               prediction callback (<< >> before any call)               *)
(*   ran         the stages the current ukf_step call has executed         *)
(*   atBoot      the weight vectors and limiter enable flags as the caller *)
(*               configured them, before ukf_init                          *)
(***************************************************************************)
VARIABLES pUkfMatrix, pUkf, mem, layout, pc, initResult, mtxResult, k,
          uWritten, uPassed, ran, atBoot

vars == <<pUkfMatrix, pUkf, mem, layout, pc, initResult, mtxResult, k,
          uWritten, uPassed, ran, atBoot>>

NoResult == "none"

(***************************************************************************)
(* Bounds of the configurations and runs explored.                         *)
(***************************************************************************)
MaxXLen == 2
MaxYLen == 2
MaxSteps == 2

(***************************************************************************)
(* Model callbacks (tPredictFcn, tObservFcn).  A callback is NULL or one   *)
(* of these models; the callback of state or output `idx` writes the one   *)
(* element [idx][sigmaIdx] of its target matrix.                           *)
(*   "walk"    x(k) = x(k-1)                                               *)
(*   "drive"   x(k) = x(k-1) + dT * u(k-1)[idx]                            *)
(*   "couple"  x(k) = x(k-1) + dT * (the next state's sigma point)         *)
(*   "state"   y = the predicted sigma point of state idx % xLen           *)
(***************************************************************************)
PredictKinds == {"walk", "drive", "couple"}
ObservKinds == {"state"}

\* the memory after prediction callback `kind` of state idx ran
PredictFcn(kind, idx, m, pu_p, pX_p, pX_m, sigmaIdx, dT) ==
    LET cols == pX_p.ncol
        rows == pX_p.nrow
        prev == m[pX_p.val][cols * idx + sigmaIdx]
        next == m[pX_p.val][cols * ((idx + 1) % rows) + sigmaIdx]
        val  == IF kind = "drive" THEN RAdd(prev, RMul(dT, m[pu_p.val][idx]))
                ELSE IF kind = "couple" THEN RAdd(prev, RMul(dT, next))
                ELSE prev
    IN  [m EXCEPT ![pX_m.val][pX_m.ncol * idx + sigmaIdx] = val]

\* the memory after observation callback `kind` of output idx ran
ObservFcn(kind, idx, m, pu, pX_m, pY_m, sigmaIdx) ==
    [m EXCEPT ![pY_m.val][pY_m.ncol * idx + sigmaIdx] =
        m[pX_m.val][pX_m.ncol * (idx % pX_m.nrow) + sigmaIdx]]

(***************************************************************************)
(* Configurations.  Params(...) describes what the model-building          *)
(* collaborator supplies; MkMatrix and MkMem build the tUkfMatrix and the  *)
(* arrays from it.  `junk` is what the arrays the collaborator does not    *)
(* initialise hold at start-up.                                            *)
(***************************************************************************)
Arrays ==
    {"Sc_vector", "Wm_weight_vector", "Wc_weight_vector", "x_system_states",
     "x_system_states_ic", "x_system_states_limits",
     "x_system_states_limits_enable", "x_system_states_correction",
     "u_system_input", "u_prev_system_input", "X_sigma_points",
     "Y_sigma_points", "y_predicted_mean", "y_meas", "Pyy_out_covariance",
     "Pyy_out_covariance_copy", "Ryy0_init_out_covariance",
     "Pxy_cross_covariance", "Pxx_error_covariance",
     "Pxx0_init_error_covariance", "Qxx_process_noise_cov", "K_kalman_gain",
     "I_identity_matrix", "Pxx_covariance_correction"}

\* the tMatrix fields of tUkfMatrix with the shapes a correct configuration
\* gives them
Shape(name, xLen, yLen) ==
    LET sLen == 2 * xLen + 1
    IN  CASE name = "Sc_vector" -> <<1, 3>>
          [] name \in {"Wm_weight_vector", "Wc_weight_vector"} -> <<1, sLen>>
          [] name \in {"x_system_states", "x_system_states_ic",
                       "x_system_states_limits_enable",
                       "x_system_states_correction", "u_system_input",
                       "u_prev_system_input"} -> <<xLen, 1>>
          [] name = "x_system_states_limits" -> <<xLen, 3>>
          [] name = "X_sigma_points" -> <<xLen, sLen>>
          [] name = "Y_sigma_points" -> <<yLen, sLen>>
          [] name \in {"y_predicted_mean", "y_meas"} -> <<yLen, 1>>
          [] name \in {"Pyy_out_covariance", "Pyy_out_covariance_copy",
                       "Ryy0_init_out_covariance", "I_identity_matrix"}
                -> <<yLen, yLen>>
          [] name \in {"Pxy_cross_covariance", "K_kalman_gain"} -> <<xLen, yLen>>
          [] OTHER -> <<xLen, xLen>>

\* a diagonal-constant square matrix, flat
Diag(len, onDiag, offDiag) ==
    [i \in 0 .. len * len - 1 |->
        IF i \div len = i % len THEN onDiag ELSE offDiag]

MkMatrix(p) ==
    [name \in Arrays |->
        IF (name \in {"x_system_states_limits", "x_system_states_limits_enable"}
              /\ ~ p.hasLim)
           \/ (name \in {"u_system_input", "u_prev_system_input"} /\ ~ p.hasU)
        THEN NullMtx
        ELSE Mtx(U8(Shape(name, p.xLen, p.yLen)[1]),
                 U8(Shape(name, p.xLen, p.yLen)[2]), name)]
    @@ [fcnPredict |-> p.fcnPredict, fcnObserve |-> p.fcnObserve, dT |-> p.dT]

MkMem(p, M) ==
    [name \in Arrays |->
        IF M[name].val = NULL THEN Fill(0, Zero)
        ELSE CASE name = "Sc_vector" ->
                    [i \in 0 .. 2 |-> IF i = alphaIdx THEN p.alpha
                                      ELSE IF i = bethaIdx THEN p.betha ELSE p.kappa]
               [] name = "x_system_states_ic" -> Fill(p.xLen, p.x0)
               [] name = "x_system_states_limits" ->
                    [i \in 0 .. 3 * p.xLen - 1 |->
                        IF i % 3 = xMinIdx THEN p.lim[i \div 3].min
                        ELSE IF i % 3 = xMaxIdx THEN p.lim[i \div 3].max
                        ELSE p.lim[i \div 3].eps]
               [] name = "x_system_states_limits_enable" ->
                    [i \in 0 .. p.xLen - 1 |-> p.lim[i].enbl]
               [] name = "Pxx0_init_error_covariance" ->
                    Diag(p.xLen, p.P0.onDiag, p.P0.offDiag)
               [] name = "Qxx_process_noise_cov" -> Diag(p.xLen, p.Qxx, Zero)
               [] name = "Ryy0_init_out_covariance" -> Diag(p.yLen, p.Ryy0, Zero)
               [] name \in {"u_system_input", "y_meas"} -> Fill(nelem(M[name]), Zero)
               [] OTHER -> Fill(nelem(M[name]), p.junk)]

(***************************************************************************)
(* tUKF before ukf_init: a zeroed structure.                               *)
(***************************************************************************)
ZeroUkf ==
    [par |-> [xLen |-> 0, yLen |-> 0, sLen |-> 0, alpha |-> Zero,
              betha |-> Zero, kappa |-> Zero, lambda |-> Zero, dT |-> Zero,
              Wm |-> NullMtx, Wc |-> NullMtx, Qxx |-> NullMtx,
              Ryy0 |-> NullMtx, Pxx0 |-> NullMtx, x0 |-> NullMtx,
              xLim |-> NullMtx, xLimEnbl |-> NullMtx],
     prev |-> [u_p |-> NullMtx, x_p |-> NullMtx, X_p |-> NullMtx,
               Pxx_p |-> NullMtx],
     input |-> [u |-> NullMtx, y |-> NullMtx],
     predict |-> [X_m |-> NullMtx, x_m |-> NullMtx, P_m |-> NullMtx,
                  Y_m |-> NullMtx, y_m |-> NullMtx,
                  pFcnPredict |-> << >>, pFcnObserv |-> << >>],
     update |-> [Pyy |-> NullMtx, Pyy_cpy |-> NullMtx, Pxy |-> NullMtx,
                 K |-> NullMtx, x |-> NullMtx, x_corr |-> NullMtx,
                 Pxx |-> NullMtx, Pxx_corr |-> NullMtx, Iyy |-> NullMtx]]

(***************************************************************************)
(* ukf_state_limiter                                                       *)
(***************************************************************************)
ukf_state_limiter(state, min, max, enbl) ==
    IF 0 # enbl
    THEN (IF RGt(min, state) THEN min
          ELSE IF RLt(max, state) THEN max
          ELSE state)
    ELSE state

(***************************************************************************)
(* ukf_dimension_check: 0 := OK, 1 := NOK                                  *)
(***************************************************************************)
ukf_dimension_check(u) ==
    LET stateLen == u.par.xLen
        sigmaLen == u.par.sLen
        yLen     == u.par.yLen
        Bad(A, rows, cols) == A.nrow # rows \/ A.ncol # cols
        chkU == IF NULL # u.input.u.val /\ NULL # u.prev.u_p.val
                THEN Bad(u.input.u, stateLen, 1) /\ Bad(u.prev.u_p, stateLen, 1)
                ELSE FALSE
        chkY == IF NULL # u.input.y.val
                THEN Bad(u.input.y, yLen, 1) ELSE TRUE
        chkW == IF NULL # u.par.Wm.val /\ NULL # u.par.Wc.val
                THEN Bad(u.par.Wm, 1, sigmaLen) /\ Bad(u.par.Wc, 1, sigmaLen)
                ELSE TRUE
        chkPxx0 == IF NULL # u.par.Pxx0.val
                   THEN Bad(u.par.Pxx0, stateLen, stateLen) ELSE TRUE
        chkQxx == IF NULL # u.par.Qxx.val
                  THEN Bad(u.par.Qxx, stateLen, stateLen) ELSE TRUE
        chkRyy0 == IF NULL # u.par.Ryy0.val
                   THEN Bad(u.par.Ryy0, yLen, yLen) ELSE TRUE
        chkX_m == IF NULL # u.predict.X_m.val
                  THEN Bad(u.predict.X_m, stateLen, sigmaLen) ELSE TRUE
        chkY_m == IF NULL # u.predict.Y_m.val
                  THEN Bad(u.predict.Y_m, yLen, sigmaLen) ELSE TRUE
        chkP_m == IF NULL # u.predict.P_m.val
                  THEN Bad(u.predict.P_m, stateLen, stateLen) ELSE TRUE
        chkPyy == IF NULL # u.update.Pyy.val /\ NULL # u.update.Pyy_cpy.val
                  THEN Bad(u.update.Pyy, yLen, yLen)
                       /\ Bad(u.update.Pyy_cpy, yLen, yLen)
                  ELSE TRUE
        chkPxy == IF NULL # u.update.Pxy.val
                  THEN Bad(u.update.Pxy, stateLen, yLen) ELSE TRUE
        chkPxx_corr == IF NULL # u.update.Pxx_corr.val
                       THEN Bad(u.update.Pxx_corr, stateLen, stateLen) ELSE TRUE
        chkK == IF NULL # u.update.K.val
                THEN Bad(u.update.K, stateLen, yLen) ELSE TRUE
    IN  IF chkU \/ chkY \/ chkW \/ chkPxx0 \/ chkQxx \/ chkRyy0 \/ chkX_m
           \/ chkY_m \/ chkP_m \/ chkPyy \/ chkPxy \/ chkPxx_corr \/ chkK
        THEN 1 ELSE 0

(***************************************************************************)
(* ukf_init                                                                *)
(***************************************************************************)
\* InitLimiter with the range test `>=` in place of `>`
InitLimiterGe(m, par) ==
    IF NULL # par.xLimEnbl.val /\ NULL # par.xLim.val
    THEN [m EXCEPT ![par.xLimEnbl.val] = [xIdx \in DOMAIN @ |->
            IF xIdx < par.xLim.nrow
            THEN LET xMin == m[par.xLim.val][par.xLim.ncol * xIdx + xMinIdx]
                     xMax == m[par.xLim.val][par.xLim.ncol * xIdx + xMaxIdx]
                     xEps == m[par.xLim.val][par.xLim.ncol * xIdx + xEpsIdx]
                 IN  IF 0 # @[xIdx] /\ ~ RLt(RAdd(xMin, xEps), xMax)
                     THEN 0 ELSE @[xIdx]
            ELSE @[xIdx]]]
    ELSE m

\* the enable flags after the limiter loop of ukf_init (lines 213-226)
InitLimiter(m, par) ==
    IF NULL # par.xLimEnbl.val /\ NULL # par.xLim.val
    THEN [m EXCEPT ![par.xLimEnbl.val] = [xIdx \in DOMAIN @ |->
            IF xIdx < par.xLim.nrow
            THEN LET xMin == m[par.xLim.val][par.xLim.ncol * xIdx + xMinIdx]
                     xMax == m[par.xLim.val][par.xLim.ncol * xIdx + xMaxIdx]
                     xEps == m[par.xLim.val][par.xLim.ncol * xIdx + xEpsIdx]
                 IN  IF 0 # @[xIdx] /\ RGt(RAdd(xMin, xEps), xMax)
                     THEN 0 ELSE @[xIdx]
            ELSE @[xIdx]]]
    ELSE m

\* the scaling parameter (lines 229-231)
InitLambda(alpha, kappa, xLen) ==
    RSub(RMul(RMul(alpha, alpha), RAdd(F(xLen), kappa)), F(xLen))

\* whether ukf_init computes the weight vectors (line 235)
WeightsComputed(WmLen, WcLen, sLen) ==
    WmLen = sLen /\ WcLen = WmLen

\* the weight vectors after lines 235-248
InitWeights(m, par, WmLen, WcLen) ==
    IF WeightsComputed(WmLen, WcLen, par.sLen)
       /\ par.Wm.val # NULL /\ par.Wc.val # NULL
    THEN LET Wm0 == RDiv(par.lambda, RAdd(F(par.xLen), par.lambda))
             Wi  == RDiv(One, RMul(F(2), RAdd(F(par.xLen), par.lambda)))
         IN  [m EXCEPT
                ![par.Wm.val] = [col \in DOMAIN @ |->
                    IF col = 0 THEN Wm0
                    ELSE IF col < WmLen THEN Wi ELSE @[col]],
                ![par.Wc.val] = [col \in DOMAIN @ |->
                    IF col = 0
                    THEN RAdd(Wm0, RAdd(RSub(One, RMul(par.alpha, par.alpha)),
                                        par.betha))
                    ELSE IF col < WmLen THEN Wi ELSE @[col]]]
    ELSE m

\* tUKFpar after lines 197-211 and 229-231
InitPar(M, m) ==
    LET xLen  == U8(M.x_system_states.nrow)
        alpha == m["Sc_vector"][alphaIdx]
        kappa == m["Sc_vector"][kappaIdx]
    IN  [xLim     |-> M.x_system_states_limits,
         xLimEnbl |-> M.x_system_states_limits_enable,
         x0       |-> M.x_system_states_ic,
         Ryy0     |-> M.Ryy0_init_out_covariance,
         Pxx0     |-> M.Pxx0_init_error_covariance,
         Qxx      |-> M.Qxx_process_noise_cov,
         Wm       |-> M.Wm_weight_vector,
         Wc       |-> M.Wc_weight_vector,
         alpha    |-> alpha,
         betha    |-> m["Sc_vector"][bethaIdx],
         kappa    |-> kappa,
         xLen     |-> xLen,
         yLen     |-> U8(M.y_predicted_mean.nrow),
         sLen     |-> U8(2 * xLen + 1),
         dT       |-> M.dT,
         lambda   |-> InitLambda(alpha, kappa, xLen)]

\* tUKF after lines 251-275
InitUkf(M, par) ==
    [par |-> par,
     input |-> [u |-> M.u_system_input, y |-> M.y_meas],
     prev |-> [Pxx_p |-> M.Pxx_error_covariance,
               X_p   |-> M.X_sigma_points,
               u_p   |-> M.u_system_input,
               x_p   |-> M.x_system_states],
     predict |-> [P_m |-> M.Pxx_error_covariance,
                  X_m |-> M.X_sigma_points,
                  x_m |-> M.x_system_states,
                  Y_m |-> M.Y_sigma_points,
                  y_m |-> M.y_predicted_mean,
                  pFcnPredict |-> M.fcnPredict,
                  pFcnObserv  |-> M.fcnObserve],
     update |-> [Iyy      |-> M.I_identity_matrix,
                 K        |-> M.K_kalman_gain,
                 Pxx      |-> M.Pxx_error_covariance,
                 Pxy      |-> M.Pxy_cross_covariance,
                 Pyy      |-> M.Pyy_out_covariance,
                 Pyy_cpy  |-> M.Pyy_out_covariance_copy,
                 x        |-> M.x_system_states,
                 x_corr   |-> M.x_system_states_correction,
                 Pxx_corr |-> M.Pxx_covariance_correction]]

\* ukf_init stores through a NULL pointer, or hands one to mtx_cpy
InitNullAccess(M) ==
    LET sLen == U8(2 * U8(M.x_system_states.nrow) + 1)
    IN  \/ /\ WeightsComputed(U8(M.Wm_weight_vector.ncol),
                              U8(M.Wc_weight_vector.ncol), sLen)
           /\ (M.Wm_weight_vector.val = NULL \/ M.Wc_weight_vector.val = NULL)
        \/ M.Pxx_error_covariance.val = NULL
        \/ M.Pxx0_init_error_covariance.val = NULL
        \/ M.x_system_states.val = NULL
        \/ M.x_system_states_ic.val = NULL

(***************************************************************************)
(* An access through NULL is undefined: the call either traps and never    *)
(* returns, or the access has no effect and the call goes on.              *)
(***************************************************************************)
ukf_init ==
    /\ pc = "boot"
    /\ LET M     == pUkfMatrix
           WmLen == U8(M.Wm_weight_vector.ncol)
           WcLen == U8(M.Wc_weight_vector.ncol)
           par   == InitPar(M, mem)
           m1    == InitLimiter(mem, par)
           m2    == InitWeights(m1, par, WmLen, WcLen)
           u     == InitUkf(M, par)
           m3    == mtx_cpy(m2, u.prev.Pxx_p, par.Pxx0)
           m4    == mtx_cpy(m3, u.prev.x_p, par.x0)
       IN  \E ub \in IF InitNullAccess(M) THEN {"trap", "none"} ELSE {"none"} :
             IF ub = "trap"
             THEN /\ pc' = "trap"
                  /\ pUkf' = [pUkf EXCEPT !.par = par]
                  /\ mem' = m1
                  /\ UNCHANGED initResult
             ELSE /\ pc' = "idle"
                  /\ pUkf' = u
                  /\ mem' = m4
                  /\ initResult' = ukf_dimension_check(u)
    /\ UNCHANGED <<pUkfMatrix, layout, mtxResult, k, uWritten, uPassed, ran,
                   atBoot>>

(***************************************************************************)
(* ukf_sigmapoint                                                          *)
(***************************************************************************)
\* xMin, xMax and xLimEnbl of state xIdx (lines 337-345 and 355-363)
XLimOf(m, par, xIdx) ==
    IF NULL # par.xLimEnbl.val /\ NULL # par.xLim.val
    THEN [xMin |-> m[par.xLim.val][par.xLim.ncol * xIdx + xMinIdx],
          xMax |-> m[par.xLim.val][par.xLim.ncol * xIdx + xMaxIdx],
          xLimEnbl |-> m[par.xLimEnbl.val][xIdx]]
    ELSE [xMin |-> Zero, xMax |-> Zero, xLimEnbl |-> 0]

\* column 0 of X_p written without the limiter
SigmaFirstColumnRaw(m, u) ==
    LET sLen == u.par.sLen
        xLen == u.par.xLen
    IN  [m EXCEPT ![u.prev.X_p.val] = [i \in DOMAIN @ |->
            IF i % sLen = 0 /\ i \div sLen < xLen
            THEN m[u.prev.x_p.val][i \div sLen]
            ELSE @[i]]]

\* the loop of lines 336-349: column 0 of X_p
SigmaFirstColumn(m, u) ==
    LET sLen == u.par.sLen
        xLen == u.par.xLen
    IN  [m EXCEPT ![u.prev.X_p.val] = [i \in DOMAIN @ |->
            IF i % sLen = 0 /\ i \div sLen < xLen
            THEN LET xIdx == i \div sLen
                     lim  == XLimOf(m, u.par, xIdx)
                 IN  ukf_state_limiter(m[u.prev.x_p.val][xIdx],
                                       lim.xMin, lim.xMax, lim.xLimEnbl)
            ELSE @[i]]]

\* columns 1 .. sLen-1 of X_p taken from the rows of the factor instead of
\* its columns
SigmaOtherColumnsByRow(m, u) ==
    LET sLen == u.par.sLen
        xLen == u.par.xLen
        px_p == m[u.prev.x_p.val]
        pPxx_p == m[u.prev.Pxx_p.val]
    IN  [m EXCEPT ![u.prev.X_p.val] = [i \in DOMAIN @ |->
            IF i % sLen >= 1 /\ i \div sLen < xLen
            THEN LET xIdx == i \div sLen
                     sigmaIdx == i % sLen
                     lim  == XLimOf(m, u.par, xIdx)
                 IN  IF sigmaIdx <= xLen
                     THEN ukf_state_limiter(
                              RAdd(px_p[xIdx], pPxx_p[xLen * (sigmaIdx - 1) + xIdx]),
                              lim.xMin, lim.xMax, lim.xLimEnbl)
                     ELSE ukf_state_limiter(
                              RSub(px_p[xIdx],
                                   pPxx_p[xLen * (sigmaIdx - xLen - 1) + xIdx]),
                              lim.xMin, lim.xMax, lim.xLimEnbl)
            ELSE @[i]]]

\* the loops of lines 353-371: columns 1 .. sLen-1 of X_p
SigmaOtherColumns(m, u) ==
    LET sLen == u.par.sLen
        xLen == u.par.xLen
        px_p == m[u.prev.x_p.val]
        pPxx_p == m[u.prev.Pxx_p.val]
    IN  [m EXCEPT ![u.prev.X_p.val] = [i \in DOMAIN @ |->
            IF i % sLen >= 1 /\ i \div sLen < xLen
            THEN LET xIdx == i \div sLen
                     sigmaIdx == i % sLen
                     lim  == XLimOf(m, u.par, xIdx)
                 IN  IF sigmaIdx <= xLen
                     THEN ukf_state_limiter(
                              RAdd(px_p[xIdx], pPxx_p[xLen * xIdx + (sigmaIdx - 1)]),
                              lim.xMin, lim.xMax, lim.xLimEnbl)
                     ELSE ukf_state_limiter(
                              RSub(px_p[xIdx],
                                   pPxx_p[xLen * xIdx + (sigmaIdx - xLen - 1)]),
                              lim.xMin, lim.xMax, lim.xLimEnbl)
            ELSE @[i]]]

\* ukf_sigmapoint with the first-column loop ahead of the status test
SigmaPointsFirstColumnAlways(m, u) ==
    LET m1 == mtx_chol_lower(m, u.prev.Pxx_p)
        m2 == SigmaFirstColumn(m1, u)
    IN  IF MTX_OPERATION_OK = mtx_chol_lower_status(m, u.prev.Pxx_p)
        THEN LET m3 == mtx_mul_scalar(m2, u.prev.Pxx_p,
                                      RSqrt(RAdd(F(u.par.xLen), u.par.lambda)))
             IN  SigmaOtherColumns(m3, u)
        ELSE m2

\* the memory ukf_sigmapoint leaves
SigmaPoints(m, u) ==
    LET m1 == mtx_chol_lower(m, u.prev.Pxx_p)
    IN  IF MTX_OPERATION_OK = mtx_chol_lower_status(m, u.prev.Pxx_p)
        THEN LET m2 == SigmaFirstColumn(m1, u)
                 m3 == mtx_mul_scalar(m2, u.prev.Pxx_p,
                                      RSqrt(RAdd(F(u.par.xLen), u.par.lambda)))
             IN  SigmaOtherColumns(m3, u)
        ELSE m1

ukf_sigmapoint ==
    /\ pc = "ukf_sigmapoint"
    /\ mtxResult' = mtx_chol_lower_status(mem, pUkf.prev.Pxx_p)
    /\ mem' = SigmaPoints(mem, pUkf)
    /\ ran' = Append(ran, "ukf_sigmapoint")
    /\ pc' = "ukf_mean_pred_state"
    /\ UNCHANGED <<pUkfMatrix, pUkf, layout, initResult, k, uWritten, uPassed,
                   atBoot>>

(***************************************************************************)
(* ukf_mean_pred_state                                                     *)
(***************************************************************************)
\* one iteration of the inner loop, lines 394-403: iteration n is state
\* n \div sLen at sigma column n % sLen
PredStateAt(m, u, n) ==
    LET sigmaLen == u.par.sLen
        xIdx == n \div sigmaLen
        sigmaIdx == n % sigmaLen
        m0 == IF sigmaIdx = 0
              THEN [m EXCEPT ![u.predict.x_m.val][xIdx] = Zero]
              ELSE m
        m1 == IF u.predict.pFcnPredict[xIdx] # NULL
              THEN PredictFcn(u.predict.pFcnPredict[xIdx], xIdx, m0,
                              u.prev.u_p, u.prev.X_p, u.predict.X_m,
                              sigmaIdx, u.par.dT)
              ELSE m0
    IN  [m1 EXCEPT ![u.predict.x_m.val][xIdx] =
            RAdd(@, RMul(m1[u.par.Wm.val][sigmaIdx],
                         m1[u.predict.X_m.val][sigmaLen * xIdx + sigmaIdx]))]

\* the loops of lines 393-404 from iteration n on
RECURSIVE PredStateFrom(_, _, _)
PredStateFrom(m, u, n) ==
    IF n >= u.par.xLen * u.par.sLen THEN m
    ELSE PredStateFrom(PredStateAt(m, u, n), u, n + 1)

\* the memory the loops of lines 393-404 have produced when iteration n
\* starts
RECURSIVE PredStateBefore(_, _, _)
PredStateBefore(m, u, n) ==
    IF n = 0 THEN m
    ELSE PredStateAt(PredStateBefore(m, u, n - 1), u, n - 1)

\* whether ukf_mean_pred_state calls a prediction callback at all
CallsPredict(u) ==
    /\ u.par.sLen > 0
    /\ \E xIdx \in 0 .. u.par.xLen - 1 : u.predict.pFcnPredict[xIdx] # NULL

ukf_mean_pred_state ==
    /\ pc = "ukf_mean_pred_state"
    /\ mem' = PredStateFrom(mem, pUkf, 0)
    /\ uPassed' = IF CallsPredict(pUkf)
                  THEN (IF pUkf.prev.u_p.val # NULL THEN mem[pUkf.prev.u_p.val]
                        ELSE << >>)
                  ELSE uPassed
    /\ ran' = Append(ran, "ukf_mean_pred_state")
    /\ pc' = "ukf_mean_pred_output"
    /\ UNCHANGED <<pUkfMatrix, pUkf, layout, initResult, mtxResult, k, uWritten,
                   atBoot>>

(***************************************************************************)
(* ukf_mean_pred_output                                                    *)
(***************************************************************************)
Size(a) == Cardinality(DOMAIN a)

\* the C store pA->val[idx] = v.  A store past the end of the array is
\* undefined: it lands in whatever the linker placed behind the array, the
\* array `behind` at the same offset, or in memory the filter never reads.
Store(m, pA, idx, v, behind) ==
    IF idx < Size(m[pA.val]) THEN [m EXCEPT ![pA.val][idx] = v]
    ELSE IF behind # NULL /\ idx - Size(m[pA.val]) < Size(m[behind])
    THEN [m EXCEPT ![behind][idx - Size(m[pA.val])] = v]
    ELSE m

\* lines 435-444 for one sigma column: the covariance of the predicted state
PredCovAt(m, u, sigmaIdx) ==
    LET sigmaLen == u.par.sLen
        xLen == u.par.xLen
        pX_m == m[u.predict.X_m.val]
        px_m == m[u.predict.x_m.val]
        pWc  == m[u.par.Wc.val]
    IN  [m EXCEPT ![u.predict.P_m.val] = [i \in DOMAIN @ |->
            IF i < xLen * xLen
            THEN LET xIdx == i \div xLen
                     xTrIdx == i % xLen
                     term1 == RSub(pX_m[sigmaLen * xIdx + sigmaIdx], px_m[xIdx])
                     term2 == RSub(pX_m[sigmaLen * xTrIdx + sigmaIdx], px_m[xTrIdx])
                 IN  RAdd(@[i], RMul(RMul(pWc[sigmaIdx], term1), term2))
            ELSE @[i]]]

\* the element indexes of Y_m that ukf_mean_pred_output itself stores to
\* (line 452) and loads from (line 455)
YmAccesses(u) ==
    LET sigmaLen == u.par.sLen
        Iterations == (0 .. sigmaLen - 1) \X (0 .. u.par.yLen - 1)
    IN  {sigmaLen * it[1] + it[2] :
            it \in {i \in Iterations : u.predict.pFcnObserv[i[2]] = NULL}}
        \cup {sigmaLen * it[2] + it[1] : it \in Iterations}

\* lines 447-455: one output at one sigma column
PredOutputAt(m, u, sigmaIdx, yIdx, behind) ==
    LET sigmaLen == u.par.sLen
        m1 == IF u.predict.pFcnObserv[yIdx] # NULL
              THEN ObservFcn(u.predict.pFcnObserv[yIdx], yIdx, m, u.input.u,
                             u.predict.X_m, u.predict.Y_m, sigmaIdx)
              ELSE Store(m, u.predict.Y_m, sigmaLen * sigmaIdx + yIdx, Zero, behind)
    IN  [m1 EXCEPT ![u.predict.y_m.val][yIdx] =
            RAdd(@, RMul(m1[u.par.Wm.val][sigmaIdx],
                         m1[u.predict.Y_m.val][sigmaLen * yIdx + sigmaIdx]))]

\* the loops of lines 434-457 from iteration n on, where iteration n is
\* output n % yLen at sigma column n \div yLen
RECURSIVE PredOutputFrom(_, _, _, _)
PredOutputFrom(m, u, n, behind) ==
    LET yLen == u.par.yLen
    IN  IF n >= u.par.sLen * yLen THEN m
        ELSE LET sigmaIdx == n \div yLen
                 yIdx == n % yLen
                 m0 == IF yIdx = 0 THEN PredCovAt(m, u, sigmaIdx) ELSE m
             IN  PredOutputFrom(PredOutputAt(m0, u, sigmaIdx, yIdx, behind),
                                u, n + 1, behind)

\* the memory ukf_mean_pred_output leaves
PredOutput(m, u, behind) ==
    PredOutputFrom(mtx_cpy(mtx_zeros(m, u.predict.y_m), u.predict.P_m, u.par.Qxx),
                   u, 0, behind)

\* ukf_step without its call of ukf_calc_covariances
ukf_mean_pred_output_then_update ==
    /\ pc = "ukf_mean_pred_output"
    /\ mem' = PredOutput(mem, pUkf, layout)
    /\ ran' = Append(ran, "ukf_mean_pred_output")
    /\ pc' = "ukf_meas_update"
    /\ UNCHANGED <<pUkfMatrix, pUkf, layout, initResult, mtxResult, k, uWritten,
                   uPassed, atBoot>>

ukf_mean_pred_output ==
    /\ pc = "ukf_mean_pred_output"
    /\ mem' = PredOutput(mem, pUkf, layout)
    /\ ran' = Append(ran, "ukf_mean_pred_output")
    /\ pc' = "ukf_calc_covariances"
    /\ UNCHANGED <<pUkfMatrix, pUkf, layout, initResult, mtxResult, k, uWritten,
                   uPassed, atBoot>>

(***************************************************************************)
(* ukf_calc_covariances                                                    *)
(***************************************************************************)
\* the memory ukf_calc_covariances leaves
CalcCovariances(m, u) ==
    LET sigmaLen == u.par.sLen
        xLen == u.par.xLen
        yLen == u.par.yLen
        m1   == mtx_zeros(mtx_cpy(m, u.update.Pyy, u.par.Ryy0), u.update.Pxy)
        pWc  == m1[u.par.Wc.val]
        pX_m == m1[u.predict.X_m.val]
        pY_m == m1[u.predict.Y_m.val]
        px_m == m1[u.predict.x_m.val]
        py_m == m1[u.predict.y_m.val]
        dY(yIdx, sigmaIdx) == RSub(pY_m[sigmaLen * yIdx + sigmaIdx], py_m[yIdx])
        dX(xIdx, sigmaIdx) == RSub(pX_m[sigmaLen * xIdx + sigmaIdx], px_m[xIdx])
    IN  [m1 EXCEPT
           ![u.update.Pyy.val] = [i \in DOMAIN @ |->
               IF i < yLen * yLen
               THEN RSumFrom(@[i],
                        [sigmaIdx \in 0 .. sigmaLen - 1 |->
                            RMul(RMul(pWc[sigmaIdx], dY(i \div yLen, sigmaIdx)),
                                 dY(i % yLen, sigmaIdx))],
                        0, sigmaLen - 1)
               ELSE @[i]],
           ![u.update.Pxy.val] = [i \in DOMAIN @ |->
               IF i < xLen * yLen
               THEN RSumFrom(@[i],
                        [sigmaIdx \in 0 .. sigmaLen - 1 |->
                            RMul(RMul(pWc[sigmaIdx], dX(i \div yLen, sigmaIdx)),
                                 dY(i % yLen, sigmaIdx))],
                        0, sigmaLen - 1)
               ELSE @[i]]]

ukf_calc_covariances ==
    /\ pc = "ukf_calc_covariances"
    /\ mem' = CalcCovariances(mem, pUkf)
    /\ ran' = Append(ran, "ukf_calc_covariances")
    /\ pc' = "ukf_meas_update"
    /\ UNCHANGED <<pUkfMatrix, pUkf, layout, initResult, mtxResult, k, uWritten,
                   uPassed, atBoot>>

(***************************************************************************)
(* ukf_meas_update                                                         *)
(***************************************************************************)
\* the memory ukf_meas_update leaves
MeasUpdate(m, u, undef) ==
    LET pUpdate == u.update
        m1 == mtx_identity(m, pUpdate.Iyy)
        m2 == mtx_cpy(m1, pUpdate.Pyy_cpy, pUpdate.Pyy)
        m3 == mtx_inv(m2, pUpdate.Pyy_cpy, pUpdate.Iyy, undef)
        m4 == mtx_mul(m3, pUpdate.Pxy, pUpdate.Iyy, pUpdate.K)
        m5 == mtx_sub(m4, u.input.y, u.predict.y_m)
        m6 == mtx_mul(m5, pUpdate.K, u.input.y, u.update.x_corr)
        m7 == mtx_add(m6, u.predict.x_m, u.update.x_corr)
        m8 == mtx_mul(m7, pUpdate.K, pUpdate.Pyy, pUpdate.Pxy)
        m9 == mtx_mul_src2tr(m8, pUpdate.Pxy, pUpdate.K, pUpdate.Pxx_corr)
    IN  mtx_sub(m9, u.predict.P_m, pUpdate.Pxx_corr)

ukf_meas_update ==
    /\ pc = "ukf_meas_update"
    /\ \E undef \in IF MtxSingular(mem, pUkf.update.Pyy)
                    THEN {"keep", "nan"} ELSE {"keep"} :
          mem' = MeasUpdate(mem, pUkf, undef)
    /\ ran' = Append(ran, "ukf_meas_update")
    /\ pc' = "store_inputs"
    /\ UNCHANGED <<pUkfMatrix, pUkf, layout, initResult, mtxResult, k, uWritten,
                   uPassed, atBoot>>

(***************************************************************************)
(* ukf_step: the caller writes the new inputs and measurements and calls   *)
(* ukf_step, which runs the five stages above and then stores the inputs   *)
(* for the next call (lines 300-310).                                      *)
(***************************************************************************)
InputValues == {F(1), F(2)}
MeasValues == {Zero, F(1)}

call_ukf_step ==
    /\ pc = "idle"
    /\ initResult = 0
    /\ k < MaxSteps
    /\ \E uNew \in InputValues, yNew \in MeasValues :
          LET m1 == IF pUkf.input.u.val # NULL
                    THEN [mem EXCEPT ![pUkf.input.u.val] =
                             [i \in DOMAIN @ |-> uNew]]
                    ELSE mem
          IN  /\ mem' = [m1 EXCEPT ![pUkf.input.y.val] = [i \in DOMAIN @ |-> yNew]]
              /\ uWritten' = Append(uWritten,
                                    IF pUkf.input.u.val # NULL
                                    THEN m1[pUkf.input.u.val] ELSE << >>)
    /\ k' = k + 1
    /\ ran' = << >>
    /\ pc' = "ukf_sigmapoint"
    /\ UNCHANGED <<pUkfMatrix, pUkf, layout, initResult, mtxResult, uPassed,
                   atBoot>>

\* lines 300-310
StoreInputs(m, u) ==
    IF NULL # u.input.u.val /\ NULL # u.prev.u_p.val
    THEN [m EXCEPT ![u.prev.u_p.val] = [u8Idx \in DOMAIN @ |->
              IF u8Idx < u.prev.u_p.nrow THEN m[u.input.u.val][u8Idx]
              ELSE @[u8Idx]]]
    ELSE m

ukf_step_return ==
    /\ pc = "store_inputs"
    /\ mem' = StoreInputs(mem, pUkf)
    /\ pc' = "idle"
    /\ UNCHANGED <<pUkfMatrix, pUkf, layout, initResult, mtxResult, k, uWritten,
                   uPassed, ran, atBoot>>

(***************************************************************************)
(* The configurations explored.                                            *)
(***************************************************************************)
Half == Q(1, 2)

\* limiter settings of one state: [min, max, epsilon] and the enable flag
LimChoices ==
    {[min |-> F(0 - 1), max |-> F(1), eps |-> Zero, enbl |-> 1],
     [min |-> F(1), max |-> F(1), eps |-> Zero, enbl |-> 1],
     [min |-> Zero, max |-> F(1), eps |-> F(2), enbl |-> 1],
     [min |-> F(0 - 1), max |-> F(1), eps |-> Zero, enbl |-> 0],
     [min |-> Zero, max |-> F(1), eps |-> F(2), enbl |-> 0],
     [min |-> F(2), max |-> Zero, eps |-> F(0 - 3), enbl |-> 1],
     [min |-> F(2), max |-> Zero, eps |-> Zero, enbl |-> 1]}

NoLim(xLen) == [i \in 0 .. xLen - 1 |->
                  [min |-> Zero, max |-> Zero, eps |-> Zero, enbl |-> 0]]

BaseParams(xLen, yLen) ==
    [xLen |-> xLen, yLen |-> yLen, alpha |-> One, betha |-> F(2),
     kappa |-> Zero, hasLim |-> FALSE, lim |-> NoLim(xLen), hasU |-> FALSE,
     x0 |-> Zero, P0 |-> [onDiag |-> One, offDiag |-> Zero], Qxx |-> Zero,
     Ryy0 |-> One, fcnPredict |-> [i \in 0 .. xLen - 1 |-> "walk"],
     fcnObserve |-> [i \in 0 .. yLen - 1 |-> "state"], dT |-> One,
     junk |-> F(7)]

\* the 14 matrices ukf_dimension_check requires
Mandatory ==
    {"y_meas", "Wm_weight_vector", "Wc_weight_vector",
     "Pxx0_init_error_covariance", "Qxx_process_noise_cov",
     "Ryy0_init_out_covariance", "X_sigma_points", "Y_sigma_points",
     "Pxx_error_covariance", "Pyy_out_covariance", "Pyy_out_covariance_copy",
     "Pxy_cross_covariance", "Pxx_covariance_correction", "K_kalman_gain"}

\* ways to get one matrix wrong: no storage, one row or one column too many
Faults == {"null", "rows", "cols"}

Damage(A, fault) ==
    IF fault = "null" THEN Mtx(A.nrow, A.ncol, NULL)
    ELSE IF fault = "rows" THEN Mtx(U8(A.nrow + 1), A.ncol, A.val)
    ELSE Mtx(A.nrow, U8(A.ncol + 1), A.val)

\* a set of <<matrix, fault>> pairs applied to a configuration
Damaged(M, faults) ==
    [name \in DOMAIN M |->
        IF \E f \in faults : f[1] = name
        THEN Damage(M[name], (CHOOSE f \in faults : f[1] = name)[2])
        ELSE M[name]]

\* a configuration and its arrays; a damaged array holds junk
Config(p, faults) ==
    LET M0 == MkMatrix(p)
        M  == Damaged(M0, faults)
        m0 == MkMem(p, M0)
    IN  [M |-> M,
         m |-> [name \in Arrays |->
                  IF M[name] = M0[name] THEN m0[name]
                  ELSE IF M[name].val = NULL THEN Fill(0, Zero)
                  ELSE Fill(nelem(M[name]), p.junk)]]

\* no fault, one fault, or one fault in each matrix of a pair that
\* ukf_dimension_check examines together
FaultSets ==
    {{}} \cup {{<<name, f>>} : name \in Mandatory, f \in Faults}
    \cup {{<<"Wm_weight_vector", f>>, <<"Wc_weight_vector", g>>} :
              f \in Faults, g \in Faults}
    \cup {{<<"Pyy_out_covariance", f>>, <<"Pyy_out_covariance_copy", g>>} :
              f \in Faults, g \in Faults}

ShapeConfigs ==
    {Config(BaseParams(xLen, yLen), faults) :
        xLen \in 1 .. MaxXLen, yLen \in 1 .. MaxYLen, faults \in FaultSets}

\* correctly shaped configurations over the scaling constants and limiters
ScalingConfigs ==
    UNION {{Config([BaseParams(xLen, 1) EXCEPT !.alpha = alpha, !.kappa = kappa,
                                               !.hasLim = TRUE, !.lim = lim], {}) :
               alpha \in {One, Half},
               kappa \in {Zero, One, F(0 - 1), F(0 - 2)},
               lim \in [0 .. xLen - 1 -> LimChoices]} :
           xLen \in 1 .. MaxXLen}

\* the largest state counts whose 2*xLen+1 does and does not fit uint8_t
WideConfigs ==
    {Config(BaseParams(xLen, 1), {}) : xLen \in {W8 \div 2 - 1, W8 \div 2}}

Boot(c) ==
    /\ pUkfMatrix = c.M
    /\ mem = c.m
    /\ pUkf = ZeroUkf
    /\ pc = "boot"
    /\ initResult = NoResult
    /\ mtxResult = NoResult
    /\ k = 0
    /\ uWritten = << >>
    /\ uPassed = << >>
    /\ ran = << >>
    /\ atBoot = [Wm |-> c.m["Wm_weight_vector"], Wc |-> c.m["Wc_weight_vector"],
                 xLimEnbl |-> c.m["x_system_states_limits_enable"]]

\* initialization alone, over every configuration above
InitConfigs ==
    /\ \E c \in ShapeConfigs \cup ScalingConfigs \cup WideConfigs : Boot(c)
    /\ layout = NULL

NextInit == ukf_init

SpecInit == InitConfigs /\ [][NextInit]_vars

(***************************************************************************)
(* Runs of the filter: ukf_init, then up to MaxSteps calls of ukf_step,    *)
(* over correctly shaped configurations.                                   *)
(***************************************************************************)
Dims == {<<xLen, yLen>> : xLen \in 1 .. MaxXLen, yLen \in 1 .. MaxYLen}

Uniform(len, v) == [i \in 0 .. len - 1 |-> v]

\* initial covariances: positive definite (diagonal and not), zero, and
\* (from two states on) singular
P0Choices ==
    {[onDiag |-> One, offDiag |-> Zero], [onDiag |-> F(4), offDiag |-> F(2)],
     [onDiag |-> Zero, offDiag |-> Zero], [onDiag |-> One, offDiag |-> One]}

\* noise covariances, initial covariance and initial state
NoiseConfigs ==
    {Config([BaseParams(d[1], d[2]) EXCEPT !.P0 = P0, !.Qxx = cov[1],
                                           !.Ryy0 = cov[2], !.x0 = x0], {}) :
        d \in Dims, P0 \in P0Choices, cov \in {Zero, One} \X {Zero, One},
        x0 \in {Zero, F(2)}}

\* callbacks present and absent, with and without a system-input vector
CallbackConfigs ==
    UNION {{Config([BaseParams(d[1], d[2]) EXCEPT
                       !.hasU = hasU, !.junk = junk,
                       !.fcnPredict = Uniform(d[1], pred),
                       !.fcnObserve = obs], {}) :
               hasU \in BOOLEAN, junk \in {Zero, F(7)},
               pred \in {NULL, "walk", "drive", "couple"},
               obs \in [0 .. d[2] - 1 -> {NULL, "state"}]} :
           d \in Dims}

\* limiters and scaling constants
LimiterConfigs ==
    UNION {{Config([BaseParams(xLen, 1) EXCEPT
                       !.hasLim = TRUE, !.lim = Uniform(xLen, lim),
                       !.alpha = sc[1], !.kappa = sc[2], !.x0 = x0,
                       !.P0 = P0], {}) :
               lim \in LimChoices,
               P0 \in {[onDiag |-> One, offDiag |-> Zero],
                       [onDiag |-> F(4), offDiag |-> F(2)]},
               sc \in {<<One, Zero>>, <<Half, Zero>>, <<One, F(0 - 2)>>},
               x0 \in {Zero, F(2), F(0 - 2)}} :
           xLen \in 1 .. MaxXLen}

\* a "drive" callback reads the system input: it needs the input vector
Runnable(c) ==
    \A i \in DOMAIN c.M.fcnPredict :
        c.M.fcnPredict[i] = "drive" => c.M["u_system_input"].val # NULL

RunConfigs ==
    {c \in NoiseConfigs \cup CallbackConfigs \cup LimiterConfigs : Runnable(c)}

\* what the linker may have placed behind Y_sigma_points
Layouts == {NULL, "y_predicted_mean", "Wm_weight_vector"}

Init ==
    /\ \E c \in RunConfigs : Boot(c)
    /\ layout \in Layouts

Next ==
    \/ ukf_init
    \/ call_ukf_step
    \/ ukf_sigmapoint
    \/ ukf_mean_pred_state
    \/ ukf_mean_pred_output
    \/ ukf_calc_covariances
    \/ ukf_meas_update
    \/ ukf_step_return

Spec == Init /\ [][Next]_vars

(***************************************************************************)
(* Claims about ukf_init, checked under SpecInit.                          *)
(***************************************************************************)
Returned == pc = "idle"

\* the shape a mandatory matrix must have, from the stored xLen, yLen, sLen
Expected(name) ==
    LET x == pUkf.par.xLen
        y == pUkf.par.yLen
        s == pUkf.par.sLen
    IN  CASE name \in {"Wm_weight_vector", "Wc_weight_vector"} -> <<1, s>>
          [] name = "y_meas" -> <<y, 1>>
          [] name = "X_sigma_points" -> <<x, s>>
          [] name = "Y_sigma_points" -> <<y, s>>
          [] name \in {"Ryy0_init_out_covariance", "Pyy_out_covariance",
                       "Pyy_out_covariance_copy"} -> <<y, y>>
          [] name \in {"Pxy_cross_covariance", "K_kalman_gain"} -> <<x, y>>
          [] OTHER -> <<x, x>>

WellFormed(name) ==
    /\ pUkfMatrix[name].val # NULL
    /\ <<pUkfMatrix[name].nrow, pUkfMatrix[name].ncol>> = Expected(name)

\* C1: ukf_init returns 0 exactly when every mandatory matrix is present
\* and has the shape implied by xLen, yLen and sLen; one absent or
\* misshaped matrix alone makes it return non-zero.
C1_InitFailsOnAnyBadMatrix ==
    Returned => (initResult = 0 <=> \A name \in Mandatory : WellFormed(name))

WeightLengthsOk ==
    /\ pUkfMatrix["Wm_weight_vector"].ncol = pUkf.par.sLen
    /\ pUkfMatrix["Wc_weight_vector"].ncol = pUkf.par.sLen

\* C2: when the length of Wm or of Wc differs from sLen, ukf_init leaves
\* both weight vectors as they were and returns non-zero.
C2_WeightLengthMismatchFails ==
    (Returned /\ ~ WeightLengthsOk)
        => /\ mem["Wm_weight_vector"] = atBoot.Wm
           /\ mem["Wc_weight_vector"] = atBoot.Wc
           /\ initResult # 0

LimiterConfigured ==
    /\ pUkfMatrix["x_system_states_limits"].val # NULL
    /\ pUkfMatrix["x_system_states_limits_enable"].val # NULL

TooNarrow(i) ==
    LET lim == mem["x_system_states_limits"]
    IN  RGt(RAdd(lim[3 * i + xMinIdx], lim[3 * i + xEpsIdx]), lim[3 * i + xMaxIdx])

\* C7: after ukf_init with limiter bounds and flags configured, the flag of
\* a state that was enabled with min + epsilon > max is 0, and the flag of
\* every other state is what it was before ukf_init.
C7_NarrowLimiterDisabled ==
    (Returned /\ LimiterConfigured)
        => \A i \in 0 .. pUkf.par.xLen - 1 :
              mem["x_system_states_limits_enable"][i] =
                  IF atBoot.xLimEnbl[i] # 0 /\ TooNarrow(i)
                  THEN 0 ELSE atBoot.xLimEnbl[i]

\* C7 witness: ukf_init cleared the flag of one state and kept the flag of
\* an enabled state whose bounds coincide (min + epsilon = max).
C7_Witness ==
    /\ Returned /\ LimiterConfigured
    /\ \E i \in 0 .. pUkf.par.xLen - 1 :
          /\ atBoot.xLimEnbl[i] = 1
          /\ mem["x_system_states_limits_enable"][i] = 0
    /\ \E i \in 0 .. pUkf.par.xLen - 1 :
          /\ atBoot.xLimEnbl[i] = 1
          /\ mem["x_system_states_limits_enable"][i] = 1
          /\ ~ TooNarrow(i)
          /\ mem["x_system_states_limits"][3 * i + xMinIdx]
               = mem["x_system_states_limits"][3 * i + xMaxIdx]

\* C8: after ukf_init the stored sigma-point count is 2*xLen + 1, and odd,
\* for every state count xLen >= 1 the configuration supplies.
C8_SigmaCount ==
    (Returned /\ pUkf.par.xLen >= 1)
        => /\ pUkf.par.sLen = 2 * pUkf.par.xLen + 1
           /\ pUkf.par.sLen % 2 = 1

\* C9: after a successful ukf_init with alpha in (0,1], Wm[0] is
\* lambda/(xLen+lambda), Wm[i] = Wc[i] = 1/(2(xLen+lambda)) for 1 <= i < sLen,
\* the sLen entries of Wm sum to 1, and Wc[0] = Wm[0] + (1 - alpha^2 + beta),
\* with lambda = alpha^2 (xLen + kappa) - xLen.
C9_Weights ==
    LET par    == pUkf.par
        x      == F(par.xLen)
        lambda == RSub(RMul(RMul(par.alpha, par.alpha), RAdd(x, par.kappa)), x)
        Wm     == mem["Wm_weight_vector"]
        Wc     == mem["Wc_weight_vector"]
        Wi     == RDiv(One, RMul(F(2), RAdd(x, lambda)))
    IN  (Returned /\ initResult = 0 /\ par.xLen >= 1
         /\ RGt(par.alpha, Zero) /\ RLe(par.alpha, One))
           => /\ Wm[0] = RDiv(lambda, RAdd(x, lambda))
              /\ \A i \in 1 .. par.sLen - 1 : Wm[i] = Wi /\ Wc[i] = Wi
              /\ RSum(Wm, 0, par.sLen - 1) = One
              /\ Wc[0] = RAdd(Wm[0],
                              RAdd(RSub(One, RMul(par.alpha, par.alpha)), par.betha))

(***************************************************************************)
(* Claims about ukf_step, checked under Spec.                              *)
(***************************************************************************)
\* the input vector was configured
InputConfigured == pUkfMatrix["u_system_input"].val # NULL

\* C3: in every ukf_step call after the first, with an input vector
\* configured, the input vector handed to the prediction callbacks holds
\* the values the caller wrote before the previous call, u(k-1), not those
\* written before the current call.
C3_PredictionSeesPreviousInput ==
    (pc = "ukf_mean_pred_output" /\ k >= 2 /\ InputConfigured
     /\ CallsPredict(pUkf))
        => uPassed = uWritten[k - 1]

\* C4: after the observation transform, for every output j without an
\* observation callback, Y_m[j][c] is zero for every sigma column c, and
\* y_m[j] is zero.
C4_AbsentObservationZeroed ==
    pc = "ukf_calc_covariances"
        => \A j \in 0 .. pUkf.par.yLen - 1 :
              pUkf.predict.pFcnObserv[j] = NULL
                  => /\ \A c \in 0 .. pUkf.par.sLen - 1 :
                           mem["Y_sigma_points"][pUkf.par.sLen * j + c] = Zero
                     /\ mem["y_predicted_mean"][j] = Zero

\* the limiter of state i is enabled
LimiterOn(i) ==
    /\ LimiterConfigured
    /\ mem["x_system_states_limits_enable"][i] # 0

LimMin(i) == mem["x_system_states_limits"][3 * i + xMinIdx]
LimMax(i) == mem["x_system_states_limits"][3 * i + xMaxIdx]

\* v clamped to the bounds of state i when its limiter is enabled
Clamp(i, v) ==
    IF ~ LimiterOn(i) THEN v
    ELSE IF RLt(v, LimMin(i)) THEN LimMin(i)
    ELSE IF RGt(v, LimMax(i)) THEN LimMax(i)
    ELSE v

\* column 0 of X_p is the clamped previous state mean
FirstColumnIsMean ==
    \A i \in 0 .. pUkf.par.xLen - 1 :
        mem["X_sigma_points"][pUkf.par.sLen * i]
            = Clamp(i, mem["x_system_states"][i])

\* C5 as stated: after the sigma-point generator has run in any ukf_step
\* call, whatever the covariance, column 0 of X_p is the previous state
\* mean x_p, clamped for the states whose limiter is enabled.
C5_FirstColumnAlways ==
    pc = "ukf_mean_pred_state" => FirstColumnIsMean

\* C5 as amended: after the sigma-point generator has run in a ukf_step
\* call in which the Cholesky factorization succeeded, column 0 of X_p is
\* the previous state mean x_p, clamped for the states whose limiter is
\* enabled.
C5_FirstColumnOnSuccess ==
    (pc = "ukf_mean_pred_state" /\ mtxResult = MTX_OPERATION_OK)
        => FirstColumnIsMean

\* C5 witness: in the second ukf_step call the factorization succeeded and
\* the generator clamped the mean of one state and kept that of another
\* state, or limiter, as it was.
C5_Witness ==
    /\ pc = "ukf_mean_pred_state" /\ mtxResult = MTX_OPERATION_OK /\ k = 2
    /\ \E i \in 0 .. pUkf.par.xLen - 1 :
          /\ LimiterOn(i)
          /\ mem["X_sigma_points"][pUkf.par.sLen * i] # mem["x_system_states"][i]
          /\ mem["X_sigma_points"][pUkf.par.sLen * i] \in {LimMin(i), LimMax(i)}

\* the factorization ukf_sigmapoint is about to attempt succeeds
CholeskySucceeds ==
    CholLower(mem["Pxx_error_covariance"], pUkf.par.xLen).ok

\* S[i][c]: the lower Cholesky factor of the previous covariance, scaled by
\* sqrt(xLen + lambda)
ScaledFactor(i, c) ==
    RMul(CholLower(mem["Pxx_error_covariance"], pUkf.par.xLen).L[pUkf.par.xLen * i + c],
         RSqrt(RAdd(F(pUkf.par.xLen), pUkf.par.lambda)))

\* X_p[i][j] as the sigma-point generator leaves it
NewSigma(i, j) == mem'["X_sigma_points"][pUkf.par.sLen * i + j]

\* columns 1 .. 2*xLen of X_p are the clamped mean plus and minus the
\* columns of the scaled factor
ColumnsFromFactor ==
    LET xLen == pUkf.par.xLen
        x_p  == mem["x_system_states"]
    IN  \A i \in 0 .. xLen - 1 :
           /\ \A j \in 1 .. xLen :
                 NewSigma(i, j) = Clamp(i, RAdd(x_p[i], ScaledFactor(i, j - 1)))
           /\ \A j \in xLen + 1 .. 2 * xLen :
                 NewSigma(i, j)
                     = Clamp(i, RSub(x_p[i], ScaledFactor(i, j - xLen - 1)))

\* every coordinate in columns 1 .. 2*xLen of a limiter-enabled state with
\* min <= max lies in [min, max]; with numbersOnly, every such coordinate
\* that is a number
ColumnsWithinLimits(numbersOnly) ==
    \A i \in 0 .. pUkf.par.xLen - 1 :
        (LimiterOn(i) /\ RLe(LimMin(i), LimMax(i)))
            => \A j \in 1 .. 2 * pUkf.par.xLen :
                  \/ numbersOnly /\ IsNaN(NewSigma(i, j))
                  \/ RLe(LimMin(i), NewSigma(i, j)) /\ RLe(NewSigma(i, j), LimMax(i))

AllStages ==
    <<"ukf_sigmapoint", "ukf_mean_pred_state", "ukf_mean_pred_output",
      "ukf_calc_covariances", "ukf_meas_update">>

\* C10: when the Cholesky factorization fails inside ukf_step, the
\* sigma-point generator leaves every entry of X_p as the previous cycle
\* left it and reports nothing, and by the time that ukf_step call returns
\* the prediction transform, the observation transform, the covariance
\* computation and the measurement update have all run.
C10_FailedCholeskyIsSilent ==
    [][/\ (pc = "ukf_sigmapoint" /\ ~ CholeskySucceeds)
             => /\ mem'["X_sigma_points"] = mem["X_sigma_points"]
                /\ initResult' = initResult
                /\ pc' = "ukf_mean_pred_state"
       /\ (pc = "store_inputs" /\ mtxResult # MTX_OPERATION_OK)
             => /\ ran = AllStages
                /\ pc' = "idle"
                /\ initResult' = initResult]_vars

\* C10 witness: the second ukf_step call has returned after its
\* factorization failed, with all five stages run and ukf_init's result
\* still 0.
C10_Witness ==
    /\ pc = "idle" /\ k = 2 /\ mtxResult = MTX_NOT_POS_DEFINED
    /\ ran = AllStages
    /\ initResult = 0

\* the input vector and the previous-input slot of the working structure
\* are both set
CopyConfigured ==
    pUkf.input.u.val # NULL /\ pUkf.prev.u_p.val # NULL

\* the position of stage s in the order of the claim
StageNo(s) == CHOOSE n \in 1 .. Len(AllStages) : AllStages[n] = s

InStage == \E n \in 1 .. Len(AllStages) : pc = AllStages[n]

\* C11: every ukf_step call runs the sigma-point generator, the prediction
\* transform, the observation transform, the covariance computation and
\* the measurement update, each once and in this order; no stage touches
\* the previous-input slot; after the measurement update the current input
\* is copied into the slot when the input vector and the slot are both
\* configured, and nothing is copied otherwise.
C11_StagesInOrderThenCopy ==
    [][/\ InStage
          => /\ ran = SubSeq(AllStages, 1, StageNo(pc) - 1)
             /\ ran' = SubSeq(AllStages, 1, StageNo(pc))
             /\ pc' = IF StageNo(pc) < Len(AllStages)
                      THEN AllStages[StageNo(pc) + 1] ELSE "store_inputs"
             /\ CopyConfigured
                   => mem'[pUkf.prev.u_p.val] = mem[pUkf.prev.u_p.val]
       /\ pc = "store_inputs"
          => /\ ran = AllStages
             /\ pc' = "idle"
             /\ IF CopyConfigured
                THEN \A i \in 0 .. pUkf.prev.u_p.nrow - 1 :
                        mem'[pUkf.prev.u_p.val][i] = mem[pUkf.input.u.val][i]
                ELSE mem' = mem
       /\ pc = "idle" => pc' = "ukf_sigmapoint" /\ ran' = << >>]_vars

\* C11 witness: the second ukf_step call has returned after its five
\* stages, with an input vector configured whose value differed between the
\* two calls, and the previous-input slot holds the current input.
C11_Witness ==
    /\ pc = "idle" /\ k = 2 /\ ran = AllStages
    /\ CopyConfigured
    /\ uWritten[1] # uWritten[2]
    /\ mem[pUkf.prev.u_p.val] = uWritten[2]

\* C12: at every invocation of a prediction callback, for state i and
\* sigma column c, the previous-sigma-point matrix X_p handed to it holds in
\* every entry but [i][c] what it held when the prediction transform
\* started, the sigma points of this step: no earlier invocation has
\* overwritten an entry with a predicted value.
C12_PreviousSigmaPointsIntact ==
    pc = "ukf_mean_pred_state"
        => \A n \in 0 .. pUkf.par.xLen * pUkf.par.sLen - 1 :
              pUkf.predict.pFcnPredict[n \div pUkf.par.sLen] # NULL
                  => \A e \in 0 .. pUkf.par.xLen * pUkf.par.sLen - 1 :
                        e # n
                          => PredStateBefore(mem, pUkf, n)[pUkf.prev.X_p.val][e]
                                 = mem[pUkf.prev.X_p.val][e]

\* C13: for every configuration ukf_dimension_check accepted and every
\* combination of present and absent observation callbacks, every element
\* of Y_m that ukf_mean_pred_output itself reads or writes has an index in
\* 0 .. yLen*sLen - 1.
C13_ObservationStaysInsideYm ==
    (pc = "ukf_mean_pred_output" /\ initResult = 0)
        => YmAccesses(pUkf) \subseteq 0 .. pUkf.par.yLen * pUkf.par.sLen - 1

====
